---- MODULE Spec2Model ----
(***************************************************************************)
(* Mentis: the diary assistant's result formatter and chat session         *)
(* (core/mentis_chat.py, mentis_main.py) and the retrieval evaluation      *)
(* harness (tests/test_retrieval_eval.py, with the adapter behaviour       *)
(* pinned down by tests/test_adapters.py).                                 *)
(*                                                                         *)
(* Four specifications share the variables below:                          *)
(*   SpecFormat  MentisChat._format_main_results over bounded result sets  *)
(*   Spec        the interactive session of main()                         *)
(*   SpecEval    RetrievalEvaluator.run_evaluation and save_results        *)
(*   SpecAdapter calls of MentisRetrieverAdapter.retrieve on a mock        *)
(***************************************************************************)
EXTENDS Integers, Sequences, FiniteSets, TLC

VARIABLES
    \* ---- formatter (SpecFormat)
    fpc,              \* "build" while the result set is populated, "returned" after the call
    results,          \* the result set: sequence of [category, items], in dict insertion order
    formatted_parts,  \* the local list formatted_parts when the function returns
    formatted,        \* the returned text
    \* ---- interactive session (Spec)
    pc,               \* position of main()
    env,              \* which of USER_ID, OPENAI_API_KEY are set
    scope,            \* "before", "inside", "left": the with MentisChat() block
    open,             \* handles acquired and not released
    nread,            \* calls of input() so far
    line,             \* what input() returned last (a sequence of characters)
    user_query,       \* main's user_query
    main_results,     \* chat's main_results
    main_context,     \* chat's main_context
    response,         \* main's response
    llm_error,        \* message of the exception llm.generate raised for this request
    exc,              \* the exception being handled or propagating
    printed,          \* the last message written to the terminal
    nshown,           \* response blocks printed so far
    exitReason,       \* how main ended
    interruptedAt,    \* where main stood when a KeyboardInterrupt was raised
    \* ---- evaluation harness (SpecEval)
    epc,              \* position of run_evaluation / save_results
    queries_file,     \* what the queries file holds: "list", "dict", "missing", "invalid"
    queries,          \* the loaded queries
    ai,               \* index of the adapter being evaluated
    qi,               \* index of the next query of create_ragas_dataset's loop
    entered,          \* adapters, and underlying retrievers, entered and not exited
    user_input,       \* eval_data['user_input']
    retrieved_contexts, \* eval_data['retrieved_contexts']
    trace,            \* per query of the running loop: what the underlying retriever did
                      \* and what the adapter returned
    ragas_results,    \* per adapter: the object evaluate() returned
    all_results,      \* run_evaluation's all_results
    files,            \* the results directory: file name -> file
    \* ---- calls of the adapter's retrieve (SpecAdapter)
    apc,              \* "ready" before the first call, "returned" after a call
    mock_results,     \* the results the underlying retriever holds
    side_effect,      \* whether the underlying retrieve raised in the last call
    defaulted,        \* whether the last call left top_k to its default
    arg_query,        \* the query of the last call
    arg_top_k,        \* the top_k of the last call
    adapter_results   \* what the last call returned

fvars == <<fpc, results, formatted_parts, formatted>>
cvars == <<pc, env, scope, open, nread, line, user_query, main_results, main_context,
           response, llm_error, exc, printed, nshown, exitReason, interruptedAt>>
evars == <<epc, queries_file, queries, ai, qi, entered, user_input, retrieved_contexts,
           trace, ragas_results, all_results, files>>
avars == <<apc, mock_results, side_effect, defaulted, arg_query, arg_top_k, adapter_results>>
vars == <<fvars, cvars, evars, avars>>

(***************************************************************************)
(* Bounds of the formatter's inputs.                                       *)
(***************************************************************************)
MaxCats == 2
MaxItems == 3

\* Python's None
None == "<None>"

(***************************************************************************)
(* Text.  Strings are TLA+ strings; BULLET stands for the two characters   *)
(* U+2022 and space that the source writes in front of every line.         *)
(***************************************************************************)
BULLET == "* "
NO_INFO == "No relevant information found."

RECURSIVE Join(_, _)
\* sep.join(parts)
Join(sep, parts) ==
    IF parts = <<>> THEN ""
    ELSE IF Len(parts) = 1 THEN parts[1]
    ELSE parts[1] \o sep \o Join(sep, Tail(parts))

(***************************************************************************)
(* Records.  A record is a function from its attribute names to strings;   *)
(* "repr" is not an attribute the formatter probes: it is what str() of    *)
(* the object returns.                                                     *)
(***************************************************************************)
HasAttr(model, a) == a \in DOMAIN model
Str(model) == model.repr

RecEvent   == [title |-> "Birthday gift", description |-> "received a bicycle",
               repr |-> "<Event>"]
RecAll     == [title |-> "Trip", name |-> "Anne", description |-> "went hiking",
               content |-> "raw text", repr |-> "<All>"]
RecPerson  == [name |-> "Anne", description |-> "a friend", repr |-> "<Person>"]
RecLabels  == [title |-> "Trip", name |-> "Anne", content |-> "", repr |-> "<Labels>"]
RecOpaque  == [title |-> "Trip", repr |-> ""]

\* a scored result (record, score) as the retriever returns it, and a bare record
Scored(model, score) == [isTuple |-> TRUE, elems |-> <<model, score>>]
Bare(model) == [isTuple |-> FALSE, obj |-> model]

SampleItems ==
    { Scored(RecEvent, 9), Scored(RecAll, 8), Scored(RecPerson, 7),
      Scored(RecLabels, 5), Scored(RecOpaque, 3), Bare(RecPerson) }

CategoryNames == <<"Event", "Person", "Emotion", "Thought">>
Categories == { CategoryNames[i] : i \in 1..(IF MaxCats < 4 THEN MaxCats ELSE 4) }

(***************************************************************************)
(* MentisChat._format_main_results                                         *)
(***************************************************************************)
\* item[0] if isinstance(item, tuple) else item
ModelInstance(item) == IF item.isTuple THEN item.elems[1] ELSE item.obj

Header(category) == "\n--- " \o category \o " ---"

RenderItem_NameFirst(model) ==
    IF HasAttr(model, "name") /\ HasAttr(model, "description")
    THEN BULLET \o model.name \o ": " \o model.description
    ELSE IF HasAttr(model, "title") /\ HasAttr(model, "description")
    THEN BULLET \o model.title \o ": " \o model.description
    ELSE IF HasAttr(model, "content")
    THEN BULLET \o model.content
    ELSE BULLET \o Str(model)

RenderItem(model) ==
    IF HasAttr(model, "title") /\ HasAttr(model, "description")
    THEN BULLET \o model.title \o ": " \o model.description
    ELSE IF HasAttr(model, "name") /\ HasAttr(model, "description")
    THEN BULLET \o model.name \o ": " \o model.description
    ELSE IF HasAttr(model, "content")
    THEN BULLET \o model.content
    ELSE BULLET \o Str(model)

RECURSIVE ItemLines(_)
\* the inner loop: one append per item
ItemLines(items) ==
    IF items = <<>> THEN <<>>
    ELSE <<RenderItem(ModelInstance(Head(items)))>> \o ItemLines(Tail(items))

CategoryParts_AlwaysHeader(category, items) ==
    <<Header(category)>> \o ItemLines(items)

\* one pass of the outer loop body: "if items:" header, then the lines
CategoryParts(category, items) ==
    IF items # <<>> THEN <<Header(category)>> \o ItemLines(items) ELSE <<>>

RECURSIVE FormattedParts(_)
\* formatted_parts after the loop over results.items()
FormattedParts(rs) ==
    IF rs = <<>> THEN <<>>
    ELSE CategoryParts(Head(rs).category, Head(rs).items) \o FormattedParts(Tail(rs))

\* "not results": None and the empty mapping are falsy
Falsy(rs) == rs = None \/ rs = <<>>

FormatMainResults_NoFallback(rs) ==
    IF Falsy(rs) THEN NO_INFO
    ELSE Join("\n", FormattedParts(rs))

FormatMainResults(rs) ==
    IF Falsy(rs) THEN NO_INFO
    ELSE IF FormattedParts(rs) # <<>> THEN Join("\n", FormattedParts(rs)) ELSE NO_INFO

(***************************************************************************)
(* SpecFormat: the retriever populates a result set category by category   *)
(* (a category is inserted when first populated, possibly with no result), *)
(* then the formatter is called on it.                                     *)
(***************************************************************************)
(***************************************************************************)
(* The evaluation harness: data it works on.                               *)
(***************************************************************************)
\* get_all_adapters(): the registered adapters, in registry order
AdapterNames == <<"simple_rag", "summary_rag">>

METRIC == "nv_context_relevance"

\* the object evaluate() returns: whether it has __getitem__, whether str() of it
\* raises, the text str() gives (a sequence of tokens), and what results[METRIC] does
NoItem == [kind |-> "missing", milli |-> 0, chars |-> <<>>]
NoRagasResult ==
    [id |-> "none", subscriptable |-> FALSE, strRaises |-> FALSE, raw |-> <<>>,
     item |-> NoItem]

ResultFile(by, content) == [exists |-> TRUE, writtenBy |-> by, json |-> content]
NoFile == [exists |-> FALSE, writtenBy |-> "nobody", json |-> [retriever |-> ""]]

FileName(retriever_name) == "evaluation/results_" \o retriever_name \o ".json"
FileNames == { FileName(AdapterNames[i]) : i \in 1..Len(AdapterNames) }

\* the harness variables while the harness is not what is being run
EvalIdle ==
    /\ epc = "idle"
    /\ queries_file = "missing"
    /\ queries = <<>>
    /\ ai = 0
    /\ qi = 0
    /\ entered = {}
    /\ user_input = <<>>
    /\ retrieved_contexts = <<>>
    /\ trace = <<>>
    /\ ragas_results = [i \in 1..Len(AdapterNames) |-> NoRagasResult]
    /\ all_results = [n \in {} |-> NoItem]
    /\ files = [f \in FileNames |-> NoFile]

\* the adapter-call variables while no adapter call is what is being run
AdapterIdle ==
    /\ apc = "idle"
    /\ mock_results = <<>>
    /\ side_effect = FALSE
    /\ defaulted = FALSE
    /\ arg_query = None
    /\ arg_top_k = 0
    /\ adapter_results = <<>>

\* the session variables while the session is not what is being run
ChatIdle ==
    /\ pc = "idle"
    /\ env = {}
    /\ scope = "before"
    /\ open = {}
    /\ nread = 0
    /\ line = None
    /\ user_query = None
    /\ main_results = None
    /\ main_context = None
    /\ response = None
    /\ llm_error = None
    /\ exc = None
    /\ printed = None
    /\ nshown = 0
    /\ exitReason = None
    /\ interruptedAt = None

RECURSIVE TotalItems(_)
TotalItems(rs) == IF rs = <<>> THEN 0 ELSE Len(Head(rs).items) + TotalItems(Tail(rs))

CategoriesOf(rs) == { rs[k].category : k \in 1..Len(rs) }

FormatInit ==
    /\ fpc = "build"
    /\ results = <<>>
    /\ formatted_parts = <<>>
    /\ formatted = None
    /\ ChatIdle
    /\ EvalIdle
    /\ AdapterIdle

PopulateCategory ==
    /\ fpc = "build"
    /\ Len(results) < MaxCats
    /\ \E c \in Categories \ CategoriesOf(results) :
          results' = Append(results, [category |-> c, items |-> <<>>])
    /\ UNCHANGED <<fpc, formatted_parts, formatted, cvars, evars, avars>>

PopulateItem ==
    /\ fpc = "build"
    /\ results # <<>>
    /\ TotalItems(results) < MaxItems
    /\ \E it \in SampleItems :
          results' = [results EXCEPT ![Len(results)].items = Append(@, it)]
    /\ UNCHANGED <<fpc, formatted_parts, formatted, cvars, evars, avars>>

Format ==
    /\ fpc = "build"
    /\ fpc' = "returned"
    /\ formatted_parts' = (IF Falsy(results) THEN <<>> ELSE FormattedParts(results))
    /\ formatted' = FormatMainResults(results)
    /\ UNCHANGED <<results, cvars, evars, avars>>

FormatNext == PopulateCategory \/ PopulateItem \/ Format

SpecFormat == FormatInit /\ [][FormatNext]_vars

(***************************************************************************)
(* The interactive session: main() of mentis_main.py and MentisChat.chat.  *)
(***************************************************************************)
MaxInputs == 2      \* calls of input() in one run
MaxLineLen == 2     \* length of the generated input lines

FormatIdle ==
    /\ fpc = "idle"
    /\ results = <<>>
    /\ formatted_parts = <<>>
    /\ formatted = None

\* ---- text of the input lines: sequences of characters
UpperCase == <<"A", "B", "C", "D", "E", "F", "G", "H", "I", "J", "K", "L", "M",
               "N", "O", "P", "Q", "R", "S", "T", "U", "V", "W", "X", "Y", "Z">>
LowerCase == <<"a", "b", "c", "d", "e", "f", "g", "h", "i", "j", "k", "l", "m",
               "n", "o", "p", "q", "r", "s", "t", "u", "v", "w", "x", "y", "z">>
Whitespace == {" ", "\t"}

LowerChar(c) ==
    IF \E i \in 1..Len(UpperCase) : UpperCase[i] = c
    THEN LowerCase[CHOOSE i \in 1..Len(UpperCase) : UpperCase[i] = c]
    ELSE c

\* str.lower()
Lower(s) == [i \in 1..Len(s) |-> LowerChar(s[i])]

RECURSIVE LStrip(_)
LStrip(s) == IF s # <<>> /\ Head(s) \in Whitespace THEN LStrip(Tail(s)) ELSE s

RECURSIVE RStrip(_)
RStrip(s) ==
    IF s # <<>> /\ s[Len(s)] \in Whitespace THEN RStrip(SubSeq(s, 1, Len(s) - 1)) ELSE s

\* str.strip()
Strip(s) == RStrip(LStrip(s))

ExitTokens == { <<"q", "u", "i", "t">>, <<"e", "x", "i", "t">>, <<"q">> }

IsExit_CaseSensitive(q) == q \in ExitTokens

\* user_query.lower() in ['quit', 'exit', 'q']
IsExit(q) == Lower(q) \in ExitTokens

\* the lines the user may type
LineAlphabet == {" ", "q", "Q", "x"}
WordLines ==
    { <<"q", "u", "i", "t">>, <<"Q", "u", "I", "T">>, <<" ", "E", "x", "i", "t", "\t">>,
      <<"e", "x", "i", "t">>, <<"q", "u", "i", "t", " ", "x">>, <<"h", "i">>,
      <<"q", "u", "i">> }
InputLines == (UNION { [1..n -> LineAlphabet] : n \in 0..MaxLineLen }) \cup WordLines

\* ---- messages
MSG_BANNER == "Type 'quit' to exit"
MSG_NO_USER_ID == "USER_ID environment variable is required"
MSG_NO_API_KEY == "OPENAI_API_KEY environment variable is required"
MSG_GOODBYE == "Goodbye from Mentis!"
MSG_RETRY == "Please enter a question."
ERR_PREFIX == "Error generating response: "
ErrorReport(msg) == "Error: " \o msg

\* ---- the collaborators: what the retriever and the language model may do
SampleResultSets ==
    { <<>>,
      << [category |-> "Event", items |-> <<Scored(RecEvent, 9)>>] >>,
      << [category |-> "Event", items |-> <<>>],
         [category |-> "Person", items |-> <<Scored(RecAll, 8), Bare(RecPerson)>>] >> }

\* the value retriever.retrieve returns: a dict with or without "results", or the
\* mapping itself, or None
RetrievalOutputs ==
    { [isDict |-> TRUE, hasResults |-> TRUE, isNone |-> FALSE, value |-> rs] :
         rs \in SampleResultSets }
    \cup { [isDict |-> TRUE, hasResults |-> FALSE, isNone |-> FALSE, value |-> <<>>] }
    \cup { [isDict |-> FALSE, hasResults |-> FALSE, isNone |-> FALSE, value |-> rs] :
              rs \in SampleResultSets }
    \cup { [isDict |-> FALSE, hasResults |-> FALSE, isNone |-> TRUE, value |-> <<>>] }

RetrievalErrors == {"vector store unavailable"}
LLMAnswers == {"You received a bicycle."}
LLMErrors == {"request timed out"}
InputErrors == {"EOF when reading a line"}

\* main_retrieval_output.get("results", {}) if isinstance(..., dict) else ...
MainResults(output) ==
    IF output.isDict
    THEN (IF output.hasResults THEN output.value ELSE <<>>)
    ELSE IF output.isNone THEN None
    ELSE output.value

ChatInit ==
    /\ pc = "start"
    /\ env \in SUBSET {"USER_ID", "OPENAI_API_KEY"}
    /\ scope = "before"
    /\ open = {}
    /\ nread = 0
    /\ line = <<>>
    /\ user_query = <<>>
    /\ main_results = None
    /\ main_context = None
    /\ response = None
    /\ llm_error = None
    /\ exc = None
    /\ printed = None
    /\ nshown = 0
    /\ exitReason = None
    /\ interruptedAt = None
    /\ FormatIdle
    /\ EvalIdle
    /\ AdapterIdle

\* main, lines 13-23: the environment checks and the banner
CheckEnvironment ==
    /\ pc = "start"
    /\ IF "USER_ID" \notin env
       THEN /\ printed' = MSG_NO_USER_ID
            /\ pc' = "done"
            /\ exitReason' = "env"
       ELSE IF "OPENAI_API_KEY" \notin env
       THEN /\ printed' = MSG_NO_API_KEY
            /\ pc' = "done"
            /\ exitReason' = "env"
       ELSE /\ printed' = MSG_BANNER
            /\ pc' = "construct"
            /\ UNCHANGED exitReason
    /\ UNCHANGED <<env, scope, open, nread, line, user_query, main_results, main_context,
                   response, llm_error, exc, nshown, interruptedAt,
                   fvars, evars, avars>>

\* MentisChat.__init__ and __enter__: Retriever() then LLM_OA("o3"); either may raise,
\* and the exception leaves main
Construct ==
    /\ pc = "construct"
    /\ \E outcome \in {"ok", "retriever fails", "llm fails"} :
          CASE outcome = "ok" ->
                  /\ open' = {"retriever", "llm"}
                  /\ scope' = "inside"
                  /\ pc' = "input"
                  /\ UNCHANGED <<exc, exitReason>>
            [] outcome = "retriever fails" ->
                  /\ exc' = "cannot open the vector store"
                  /\ exitReason' = "uncaught"
                  /\ pc' = "done"
                  /\ UNCHANGED <<open, scope>>
            [] outcome = "llm fails" ->
                  /\ open' = {"retriever"}
                  /\ exc' = "cannot open the LLM client"
                  /\ exitReason' = "uncaught"
                  /\ pc' = "done"
                  /\ UNCHANGED scope
    /\ UNCHANGED <<env, nread, line, user_query, main_results, main_context, response,
                   llm_error, printed, nshown, interruptedAt, fvars, evars, avars>>

\* main, lines 31-39: read a line, strip it, then the exit and the empty checks
ReadLine ==
    /\ pc = "input"
    /\ nread < MaxInputs
    /\ \E typed \in InputLines :
          /\ line' = typed
          /\ user_query' = Strip(typed)
          /\ IF IsExit(Strip(typed))
             THEN /\ printed' = MSG_GOODBYE
                  /\ exitReason' = "token"
                  /\ pc' = "leave"
             ELSE IF Strip(typed) = <<>>
             THEN /\ printed' = MSG_RETRY
                  /\ pc' = "input"
                  /\ UNCHANGED exitReason
             ELSE /\ printed' = "Mentis is analyzing your semantic knowledge graph..."
                  /\ pc' = "retrieve"
                  /\ UNCHANGED exitReason
    /\ nread' = nread + 1
    /\ llm_error' = None
    /\ UNCHANGED <<env, scope, open, main_results, main_context, response, exc, nshown,
                   interruptedAt,
                   fvars, evars, avars>>

\* input() raises (end of input): an Exception, caught by main's handler
ReadFails ==
    /\ pc = "input"
    /\ nread < MaxInputs
    /\ \E msg \in InputErrors : exc' = msg
    /\ nread' = nread + 1
    /\ pc' = "handler"
    /\ UNCHANGED <<env, scope, open, line, user_query, main_results, main_context,
                   response, llm_error, printed, nshown, exitReason, interruptedAt, fvars, evars, avars>>

\* chat, lines 21-22: the retrieval and the unwrapping of its output
Retrieve ==
    /\ pc = "retrieve"
    /\ \/ \E output \in RetrievalOutputs :
             /\ main_results' = MainResults(output)
             /\ pc' = "format"
             /\ UNCHANGED exc
       \/ \E msg \in RetrievalErrors :
             /\ exc' = msg
             /\ pc' = "handler"
             /\ UNCHANGED main_results
    /\ UNCHANGED <<env, scope, open, nread, line, user_query, main_context, response,
                   llm_error, printed, nshown, exitReason, interruptedAt, fvars, evars, avars>>

\* chat, line 25
FormatContext ==
    /\ pc = "format"
    /\ main_context' = FormatMainResults(main_results)
    /\ pc' = "generate"
    /\ UNCHANGED <<env, scope, open, nread, line, user_query, main_results, response,
                   llm_error, exc, printed, nshown, exitReason, interruptedAt, fvars, evars, avars>>

GenerateAnswer_Propagates ==
    /\ pc = "generate"
    /\ \/ \E answer \in LLMAnswers :
             /\ response' = answer
             /\ pc' = "show"
             /\ UNCHANGED <<llm_error, exc>>
       \/ \E msg \in LLMErrors :
             /\ llm_error' = msg
             /\ exc' = msg
             /\ pc' = "handler"
             /\ UNCHANGED response
    /\ main_results' = None
    /\ main_context' = None
    /\ UNCHANGED <<env, scope, open, nread, line, user_query, printed, nshown,
                   exitReason, interruptedAt, fvars, evars, avars>>

\* _generate_answer and the return of chat into main's response: the generate call
\* returns an answer or raises an Exception, which is turned into the error string
GenerateAnswer ==
    /\ pc = "generate"
    /\ \/ \E answer \in LLMAnswers :
             /\ response' = answer
             /\ UNCHANGED llm_error
       \/ \E msg \in LLMErrors :
             /\ llm_error' = msg
             /\ response' = ERR_PREFIX \o msg
    /\ pc' = "show"
    /\ main_results' = None
    /\ main_context' = None
    /\ UNCHANGED <<env, scope, open, nread, line, user_query, exc, printed, nshown,
                   exitReason, interruptedAt, fvars, evars, avars>>

\* main, lines 46-51: the response block
ShowResponse ==
    /\ pc = "show"
    /\ printed' = response
    /\ nshown' = nshown + 1
    /\ pc' = "input"
    /\ UNCHANGED <<env, scope, open, nread, line, user_query, main_results, main_context,
                   response, llm_error, exc, exitReason, interruptedAt, fvars, evars, avars>>

HandleException_Aborts ==
    /\ pc = "handler"
    /\ printed' = ErrorReport(exc)
    /\ exc' = None
    /\ main_results' = None
    /\ main_context' = None
    /\ pc' = "leave"
    /\ UNCHANGED <<env, scope, open, nread, line, user_query, response, llm_error,
                   nshown, exitReason, interruptedAt, fvars, evars, avars>>

\* main, lines 56-58: except Exception
HandleException ==
    /\ pc = "handler"
    /\ printed' = ErrorReport(exc)
    /\ exc' = None
    /\ main_results' = None
    /\ main_context' = None
    /\ pc' = "input"
    /\ UNCHANGED <<env, scope, open, nread, line, user_query, response, llm_error,
                   nshown, exitReason, interruptedAt, fvars, evars, avars>>

\* where the body of the try block stands while a request is being answered by chat
InChat == {"retrieve", "format", "generate"}
InTry == {"input", "show"} \cup InChat

Interrupt_Continues ==
    /\ pc \in InTry \cup {"handler"}
    /\ IF pc \in InTry
       THEN /\ printed' = MSG_GOODBYE
            /\ exitReason' = "interrupt"
            /\ pc' = "input"
            /\ UNCHANGED exc
       ELSE /\ exc' = "KeyboardInterrupt"
            /\ exitReason' = "uncaught"
            /\ pc' = "leave"
            /\ UNCHANGED printed
    /\ interruptedAt' = pc
    /\ main_results' = None
    /\ main_context' = None
    /\ UNCHANGED <<env, scope, open, nread, line, user_query, response, llm_error,
                   nshown, fvars, evars, avars>>

\* A KeyboardInterrupt is raised wherever the program stands.  Inside the try block
\* (main, lines 53-55) it is caught: goodbye, break.  Inside the except Exception
\* handler nothing catches it: it leaves the with block and main.
Interrupt ==
    /\ pc \in InTry \cup {"handler"}
    /\ IF pc \in InTry
       THEN /\ printed' = MSG_GOODBYE
            /\ exitReason' = "interrupt"
            /\ UNCHANGED exc
       ELSE /\ exc' = "KeyboardInterrupt"
            /\ exitReason' = "uncaught"
            /\ UNCHANGED printed
    /\ pc' = "leave"
    /\ interruptedAt' = pc
    /\ main_results' = None
    /\ main_context' = None
    /\ UNCHANGED <<env, scope, open, nread, line, user_query, response, llm_error,
                   nshown, fvars, evars, avars>>

\* MentisChat.__exit__: pass
LeaveScope ==
    /\ pc = "leave"
    /\ scope' = "left"
    /\ pc' = "done"
    /\ UNCHANGED <<env, open, nread, line, user_query, main_results, main_context,
                   response, llm_error, exc, printed, nshown, exitReason, interruptedAt, fvars, evars, avars>>

Next ==
    \/ CheckEnvironment
    \/ Construct
    \/ ReadLine
    \/ ReadFails
    \/ Retrieve
    \/ FormatContext
    \/ GenerateAnswer
    \/ ShowResponse
    \/ HandleException
    \/ Interrupt
    \/ LeaveScope

Spec == ChatInit /\ [][Next]_vars

(***************************************************************************)
(* The evaluation harness: RetrievalEvaluator of tests/test_retrieval_eval *)
(* driving the adapters of evaluation/adapters.py, whose behaviour is the  *)
(* one tests/test_adapters.py pins down.                                   *)
(***************************************************************************)
MaxQueries == 2     \* queries in the queries file
MaxDocs == 2        \* chunks the underlying retriever holds for a query

DEFAULT_TOP_K == 5

QueryPool == <<"query 1", "query 2", "query 3", "query 4", "query 5">>
DefaultQueries ==
    << "What activities did the user do with friends?",
       "What work-related challenges did the user face?",
       "What emotions did the user express about family relationships?" >>

Min(a, b) == IF a < b THEN a ELSE b

AllChunks == <<"chunk1", "chunk2", "chunk3", "chunk4", "chunk5", "chunk6", "chunk7">>
Stored(n) == SubSeq(AllChunks, 1, Min(n, Len(AllChunks)))

\* what the underlying retriever does for one query: it raises, or it holds n chunks
UnderlyingOutcomes ==
    { [raises |-> TRUE, stored |-> <<>>] }
    \cup { [raises |-> FALSE, stored |-> Stored(n)] : n \in 0..MaxDocs }

UnderlyingRetrieve_IgnoresLimit(stored, limit) == stored

\* MockRetriever.retrieve: self.mock_results[:limit]
UnderlyingRetrieve(stored, limit) == SubSeq(stored, 1, Min(limit, Len(stored)))

\* MentisRetrieverAdapter.retrieve(query, top_k): the underlying retriever's result,
\* and the empty list when the underlying retriever raises
AdapterRetrieve(outcome, top_k) ==
    IF outcome.raises THEN <<>> ELSE UnderlyingRetrieve(outcome.stored, top_k)

KeepsEntry_Always(retrieved_docs) == TRUE

KeepsEntry_Never(retrieved_docs) == FALSE

\* "if retrieved_docs:"
KeepsEntry(retrieved_docs) == retrieved_docs # <<>>

\* ---- score extraction
DIGITS == <<"0", "1", "2", "3", "4", "5", "6", "7", "8", "9">>
IsDigit(c) == \E i \in 1..Len(DIGITS) : DIGITS[i] = c
DigitVal(c) == (CHOOSE i \in 1..Len(DIGITS) : DIGITS[i] = c) - 1

RECURSIVE IntOf(_)
IntOf(digits) ==
    IF digits = <<>> THEN 0
    ELSE IntOf(SubSeq(digits, 1, Len(digits) - 1)) * 10 + DigitVal(digits[Len(digits)])

\* float(text) for a text of digits and dots; the value is kept in thousandths
ParseFloat(chars) ==
    LET dots == { i \in 1..Len(chars) : chars[i] = "." }
        ok == /\ \A i \in 1..Len(chars) : IsDigit(chars[i]) \/ chars[i] = "."
              /\ Cardinality(dots) <= 1
              /\ \E i \in 1..Len(chars) : IsDigit(chars[i])
        dot == IF dots = {} THEN Len(chars) + 1 ELSE CHOOSE i \in dots : TRUE
        frac == SubSeq(chars, dot + 1, Len(chars))
        fracDigit(k) == IF k <= Len(frac) THEN DigitVal(frac[k]) ELSE 0
    IN  IF ok
        THEN [ok |-> TRUE,
              milli |-> IntOf(SubSeq(chars, 1, dot - 1)) * 1000
                        + fracDigit(1) * 100 + fracDigit(2) * 10 + fracDigit(3)]
        ELSE [ok |-> FALSE, milli |-> 0]

\* 'nv_context_relevance' in str(results)
MentionsMetric(raw) == \E i \in 1..Len(raw) : raw[i] = METRIC

RECURSIVE DigitsAndDots(_, _)
\* the longest run of digits and dots of raw that starts at position i
DigitsAndDots(raw, i) ==
    IF i <= Len(raw) /\ (IsDigit(raw[i]) \/ raw[i] = ".")
    THEN <<raw[i]>> \o DigitsAndDots(raw, i + 1)
    ELSE <<>>

\* re.search(r"'nv_context_relevance': ([\d.]+)", raw_str)
RegexSearch(raw) ==
    LET starts == { i \in 1..Len(raw) :
                       /\ i + 4 <= Len(raw)
                       /\ SubSeq(raw, i, i + 3) = <<"'", METRIC, "'", ": ">>
                       /\ DigitsAndDots(raw, i + 4) # <<>> }
    IN  IF starts = {} THEN [matched |-> FALSE, group |-> <<>>]
        ELSE [matched |-> TRUE,
              group |-> DigitsAndDots(raw, (CHOOSE i \in starts : \A j \in starts : i <= j) + 4)]

RagasResult(id, subscriptable, strRaises, raw, item) ==
    [id |-> id, subscriptable |-> subscriptable, strRaises |-> strRaises, raw |-> raw,
     item |-> item]
ListItem == [kind |-> "list", milli |-> 0, chars |-> <<>>]
NumberItem(milli) == [kind |-> "number", milli |-> milli, chars |-> <<>>]
TextItem(chars) == [kind |-> "text", milli |-> 0, chars |-> chars]

\* the shapes evaluate() may hand back
SampleRagasResults ==
    { RagasResult("per-sample list", TRUE, FALSE,
                  <<"{", "'", METRIC, "'", ": ", "0", ".", "8", "5", "}">>, ListItem),
      RagasResult("number", TRUE, FALSE,
                  <<"{", "'", METRIC, "'", ": ", "0", ".", "5", "}">>, NumberItem(500)),
      RagasResult("no key", TRUE, FALSE, <<"{", "}">>, NoItem),
      RagasResult("renamed metric", TRUE, FALSE,
                  <<"{", "'", "context_relevance", "'", ": ", "0", ".", "9", "}">>, NoItem),
      RagasResult("no subscript", FALSE, FALSE, <<"<EvaluationResult>">>, NoItem),
      RagasResult("text value", TRUE, FALSE,
                  <<"{", "'", METRIC, "'", ": ", "'", "n/a", "'", "}">>,
                  TextItem(<<"n", "/", "a">>)),
      RagasResult("elided value", TRUE, FALSE,
                  <<"{", "'", METRIC, "'", ": ", ".", ".", ".", "}">>, NumberItem(500)),
      RagasResult("numeric text", TRUE, FALSE, <<"{", METRIC, "}">>,
                  TextItem(<<"0", ".", "2", "5">>)),
      RagasResult("str fails", TRUE, TRUE, <<>>, NoItem) }

EvaluateErrors == {"rate limit exceeded"}

BaseRecord(retriever_name, n, res) ==
    [retriever |-> retriever_name, num_queries |-> n, raw_results |-> res.raw]
ScoredRecord(retriever_name, n, res, milli) ==
    [retriever |-> retriever_name, num_queries |-> n, raw_results |-> res.raw,
     nv_context_relevance |-> milli]
\* evaluate_retriever, lines 125-171: the record built from the results object.
\*  - str(results) raising leaves the try of line 126 for the handler of line 160,
\*    whose own str(results) raises again: the handler of line 173 returns an error;
\*  - without __getitem__ nothing is extracted;
\*  - a matched pattern that float() rejects leaves for the handler of line 155,
\*    before the direct access;
\*  - results[METRIC] raising KeyError or TypeError, or float() of it raising
\*    TypeError, is passed over; float() raising ValueError leaves for line 155.
\* In none of these is a metric set to a default: the handler of line 160, which
\* sets every metric to 0.0, is entered only from str(results) or metric.name raising.
ExtractScores(retriever_name, n, res) ==
    LET m == RegexSearch(res.raw)
        parsed == ParseFloat(m.group)
        direct == ParseFloat(res.item.chars)
    IN  IF res.strRaises THEN [error |-> "str() failed"]
        ELSE IF ~res.subscriptable THEN BaseRecord(retriever_name, n, res)
        ELSE IF MentionsMetric(res.raw) /\ m.matched /\ ~parsed.ok
        THEN BaseRecord(retriever_name, n, res)
        ELSE IF res.item.kind = "number"
        THEN ScoredRecord(retriever_name, n, res, res.item.milli)
        ELSE IF res.item.kind = "text" /\ direct.ok
        THEN ScoredRecord(retriever_name, n, res, direct.milli)
        ELSE IF MentionsMetric(res.raw) /\ m.matched
        THEN ScoredRecord(retriever_name, n, res, parsed.milli)
        ELSE BaseRecord(retriever_name, n, res)

ShouldSave_Always(result) == TRUE

\* save_results: if "error" not in result
ShouldSave(result) == "error" \notin DOMAIN result

\* a file a previous run left in the results directory
StaleFile(i) ==
    ResultFile("previous run",
               [retriever |-> AdapterNames[i], num_queries |-> 1, raw_results |-> <<"{", "}">>])

(***************************************************************************)
(* SpecEval: run_evaluation, then save_results (the __main__ block).       *)
(***************************************************************************)
EvalInit ==
    /\ epc = "load"
    /\ queries_file \in {"list", "dict", "missing", "invalid"}
    /\ queries = <<>>
    /\ ai = 0
    /\ qi = 0
    /\ entered = {}
    /\ user_input = <<>>
    /\ retrieved_contexts = <<>>
    /\ trace = <<>>
    /\ ragas_results = [i \in 1..Len(AdapterNames) |-> NoRagasResult]
    /\ all_results = [n \in {} |-> NoItem]
    /\ \E stale \in SUBSET (1..Len(AdapterNames)) :
          files = [f \in FileNames |->
                     IF \E i \in stale : FileName(AdapterNames[i]) = f
                     THEN StaleFile(CHOOSE i \in stale : FileName(AdapterNames[i]) = f)
                     ELSE NoFile]
    /\ ChatIdle
    /\ FormatIdle
    /\ AdapterIdle

\* load_queries and get_all_adapters
LoadQueries ==
    /\ epc = "load"
    /\ CASE queries_file \in {"list", "dict"} ->
               /\ \E n \in 0..MaxQueries : queries' = SubSeq(QueryPool, 1, Min(n, Len(QueryPool)))
               /\ epc' = "enter"
               /\ ai' = 1
         [] queries_file = "missing" ->
               /\ queries' = DefaultQueries
               /\ epc' = "enter"
               /\ ai' = 1
         [] OTHER ->
               \* ValueError("Invalid queries file format") leaves run_evaluation
               /\ epc' = "aborted"
               /\ UNCHANGED <<queries, ai>>
    /\ UNCHANGED <<queries_file, qi, entered, user_input, retrieved_contexts, trace,
                   ragas_results, all_results, files, fvars, cvars, avars>>

\* the underlying retriever of an adapter
Underlying(name) == name \o ".retriever"

\* MentisRetrieverAdapter.__enter__: enters the underlying retriever when it supports
\* the context-manager protocol
AdapterEnter(scopes, name, supports) ==
    scopes \cup {name} \cup (IF supports THEN {Underlying(name)} ELSE {})

AdapterExit_KeepsUnderlying(scopes, name) == scopes \ {name}

\* MentisRetrieverAdapter.__exit__: exits the underlying retriever when it supports
\* the context-manager protocol
AdapterExit(scopes, name) == scopes \ {name, Underlying(name)}

\* create_ragas_dataset, lines 79-84: the empty columns and "with retriever:"
EnterAdapter ==
    /\ epc = "enter"
    /\ \E supports \in BOOLEAN : entered' = AdapterEnter(entered, AdapterNames[ai], supports)
    /\ user_input' = <<>>
    /\ retrieved_contexts' = <<>>
    /\ trace' = <<>>
    /\ qi' = 1
    /\ epc' = "loop"
    /\ UNCHANGED <<queries_file, queries, ai, ragas_results, all_results, files, fvars,
                   cvars, avars>>

\* create_ragas_dataset, lines 85-91: one pass of the loop over the queries
RetrieveQuery ==
    /\ epc = "loop"
    /\ qi <= Len(queries)
    /\ \E outcome \in UnderlyingOutcomes :
          LET retrieved_docs == AdapterRetrieve(outcome, DEFAULT_TOP_K) IN
          /\ IF KeepsEntry(retrieved_docs)
             THEN /\ user_input' = Append(user_input, queries[qi])
                  /\ retrieved_contexts' = Append(retrieved_contexts, retrieved_docs)
             ELSE UNCHANGED <<user_input, retrieved_contexts>>
          /\ trace' = Append(trace, [query |-> queries[qi], raised |-> outcome.raises,
                                     returned |-> retrieved_docs])
    /\ qi' = qi + 1
    /\ UNCHANGED <<epc, queries_file, queries, ai, entered, ragas_results, all_results,
                   files, fvars, cvars, avars>>

\* the end of the with block: the adapter is exited
ExitAdapter ==
    /\ epc = "loop"
    /\ qi > Len(queries)
    /\ entered' = AdapterExit(entered, AdapterNames[ai])
    /\ epc' = "evaluate"
    /\ UNCHANGED <<queries_file, queries, ai, qi, user_input, retrieved_contexts, trace,
                   ragas_results, all_results, files, fvars, cvars, avars>>

\* create_ragas_dataset, line 87, raising out of the with block: the adapter absorbs
\* every Exception of the underlying retrieve, so what leaves the call is a
\* KeyboardInterrupt.  The with statement exits the adapter; evaluate_retriever's
\* except Exception (line 173) does not catch it and it leaves run_evaluation.
RetrieveInterrupted ==
    /\ epc = "loop"
    /\ qi <= Len(queries)
    /\ entered' = AdapterExit(entered, AdapterNames[ai])
    /\ epc' = "aborted"
    /\ UNCHANGED <<queries_file, queries, ai, qi, user_input, retrieved_contexts, trace,
                   ragas_results, all_results, files, fvars, cvars, avars>>

Record_SkipsErrors(name, result) ==
    IF "error" \in DOMAIN result
    THEN all_results
    ELSE [n \in DOMAIN all_results \cup {name} |-> IF n = name THEN result ELSE all_results[n]]

\* all_results[name] = result
Record(name, result) ==
    [n \in DOMAIN all_results \cup {name} |-> IF n = name THEN result ELSE all_results[n]]

\* evaluate_retriever, lines 116-175, and run_evaluation, lines 197-198: the empty
\* dataset, the evaluation, the extraction, and the record stored under the name
Evaluate ==
    /\ epc = "evaluate"
    /\ LET name == AdapterNames[ai] IN
       IF Len(user_input) = 0
       THEN /\ all_results' = Record(name, [error |-> "No valid data"])
            /\ UNCHANGED ragas_results
       ELSE \/ \E msg \in EvaluateErrors :
                  /\ all_results' = Record(name, [error |-> msg])
                  /\ UNCHANGED ragas_results
            \/ \E res \in SampleRagasResults :
                  /\ ragas_results' = [ragas_results EXCEPT ![ai] = res]
                  /\ all_results' = Record(name, ExtractScores(name, Len(user_input), res))
    /\ ai' = ai + 1
    /\ epc' = (IF ai < Len(AdapterNames) THEN "enter" ELSE "save")
    /\ UNCHANGED <<queries_file, queries, qi, entered, user_input, retrieved_contexts,
                   trace, files, fvars, cvars, avars>>

\* __main__, lines 248-249, and save_results: a file per result without "error"
SaveResults ==
    /\ epc = "save"
    /\ files' = [f \in FileNames |->
                   IF \E n \in DOMAIN all_results : FileName(n) = f /\ ShouldSave(all_results[n])
                   THEN ResultFile("this run",
                                   all_results[CHOOSE n \in DOMAIN all_results : FileName(n) = f])
                   ELSE files[f]]
    /\ epc' = "finished"
    /\ UNCHANGED <<queries_file, queries, ai, qi, entered, user_input, retrieved_contexts,
                   trace, ragas_results, all_results, fvars, cvars, avars>>

EvalNext ==
    \/ LoadQueries
    \/ EnterAdapter
    \/ RetrieveQuery
    \/ ExitAdapter
    \/ RetrieveInterrupted
    \/ Evaluate
    \/ SaveResults

SpecEval == EvalInit /\ [][EvalNext]_vars

(***************************************************************************)
(* SpecAdapter: MentisRetrieverAdapter.retrieve called, with and without   *)
(* top_k, on an adapter whose underlying retriever is the MockRetriever of *)
(* tests/test_adapters.py (or a mock whose retrieve raises).               *)
(***************************************************************************)
MaxStored == 6      \* results the mock retriever holds
MaxTopK == 7        \* largest top_k passed explicitly

ADAPTER_DEFAULT_TOP_K == 5

\* the mock the test builds: MockRetriever(name, mock_results)
AdapterInit ==
    /\ apc = "ready"
    /\ \E n \in 0..MaxStored : mock_results = Stored(n)
    /\ side_effect = FALSE
    /\ defaulted = FALSE
    /\ arg_query = None
    /\ arg_top_k = 0
    /\ adapter_results = <<>>
    /\ ChatIdle
    /\ FormatIdle
    /\ EvalIdle

\* the body of a call adapter.retrieve(query, top_k), the underlying retrieve raising
\* or not
CallRetrieve(query, top_k, raises) ==
    /\ apc \in {"ready", "returned"}
    /\ arg_query' = query
    /\ arg_top_k' = top_k
    /\ side_effect' = raises
    /\ adapter_results' = AdapterRetrieve([raises |-> raises, stored |-> mock_results], top_k)
    /\ apc' = "returned"
    /\ UNCHANGED <<mock_results, fvars, cvars, evars>>

\* adapter.retrieve("test query", top_k=k)
RetrieveTopK ==
    \E i \in 1..2 : \E k \in 0..MaxTopK : \E raises \in BOOLEAN :
        /\ CallRetrieve(QueryPool[i], k, raises)
        /\ defaulted' = FALSE

\* adapter.retrieve("test query")
RetrieveDefault ==
    \E i \in 1..2 : \E raises \in BOOLEAN :
        /\ CallRetrieve(QueryPool[i], ADAPTER_DEFAULT_TOP_K, raises)
        /\ defaulted' = TRUE

AdapterNext ==
    \/ RetrieveTopK
    \/ RetrieveDefault

SpecAdapter == AdapterInit /\ [][AdapterNext]_vars

(***************************************************************************)
(* Claims about the formatter (checked under SpecFormat).                  *)
(***************************************************************************)
RECURSIVE PartsBefore(_, _)
\* how many entries of formatted_parts the categories before the k-th one account for
PartsBefore(rs, k) ==
    IF k = 1 THEN 0
    ELSE PartsBefore(rs, k - 1)
         + (IF rs[k - 1].items = <<>> THEN 0 ELSE 1 + Len(rs[k - 1].items))

\* the j-th line of the k-th category, as it stands in formatted_parts
LineOf(k, j) == formatted_parts[PartsBefore(results, k) + 1 + j]

\* the documented priority order, as a table of rules
RuleNeeds == << {"title", "description"}, {"name", "description"}, {"content"}, {} >>
RuleMatches(i, model) == \A a \in RuleNeeds[i] : HasAttr(model, a)
FirstRule(model) ==
    CHOOSE i \in 1..4 : RuleMatches(i, model) /\ \A h \in 1..(i - 1) : ~RuleMatches(h, model)
RuleText(i, model) ==
    CASE i = 1 -> model.title \o ": " \o model.description
      [] i = 2 -> model.name \o ": " \o model.description
      [] i = 3 -> model.content
      [] OTHER -> Str(model)

\* C1: every record is rendered by the first matching rule in the order
\* (title, description), (name, description), content, generic string; a record
\* exposing title, name and description is rendered with its title, never its name.
C1_FormatterPriority ==
    fpc = "returned" =>
        \A k \in 1..Len(results) : \A j \in 1..Len(results[k].items) :
            LET model == ModelInstance(results[k].items[j]) IN
            /\ LineOf(k, j) = BULLET \o RuleText(FirstRule(model), model)
            /\ ({"title", "name", "description"} \subseteq DOMAIN model =>
                   /\ LineOf(k, j) = BULLET \o model.title \o ": " \o model.description
                   /\ LineOf(k, j) # BULLET \o model.name \o ": " \o model.description)

C1_Witness ==
    /\ fpc = "returned"
    /\ \E k \in 1..Len(results) : \E j \in 1..Len(results[k].items) :
          ModelInstance(results[k].items[j]) = RecAll

\* C2: the formatter never returns the empty string; for an empty result set, or one
\* whose categories all map to an empty list, it returns exactly the sentinel.
C2_NeverEmptyText ==
    fpc = "returned" =>
        /\ formatted # ""
        /\ ((\A k \in 1..Len(results) : results[k].items = <<>>) => formatted = NO_INFO)

C2_Witness ==
    /\ fpc = "returned"
    /\ Len(results) >= 2
    /\ \A k \in 1..Len(results) : results[k].items = <<>>

RECURSIVE LinesText(_)
\* the lines of one category, each on a new line
LinesText(items) ==
    IF items = <<>> THEN ""
    ELSE "\n" \o RenderItem(ModelInstance(Head(items))) \o LinesText(Tail(items))

RECURSIVE BlocksText(_, _)
\* the text of the categories k.. of rs: a block per category that has results
BlocksText(rs, first) ==
    IF rs = <<>> THEN ""
    ELSE IF Head(rs).items = <<>> THEN BlocksText(Tail(rs), first)
    ELSE (IF first THEN "" ELSE "\n") \o Header(Head(rs).category)
         \o LinesText(Head(rs).items) \o BlocksText(Tail(rs), FALSE)

\* C3: the text holds, for each category with at least one result and in the result
\* set's order, one header followed by one line per (record, score) in the category's
\* order; a category without results contributes neither header nor line.
C3_HeaderThenOneLinePerResult ==
    fpc = "returned" =>
        /\ Len(formatted_parts) = PartsBefore(results, Len(results) + 1)
        /\ \A k \in 1..Len(results) :
              IF results[k].items = <<>>
              THEN \A p \in 1..Len(formatted_parts) :
                      formatted_parts[p] # Header(results[k].category)
              ELSE /\ formatted_parts[PartsBefore(results, k) + 1] = Header(results[k].category)
                   /\ \A j \in 1..Len(results[k].items) :
                         LineOf(k, j) = RenderItem(ModelInstance(results[k].items[j]))
        /\ (formatted_parts # <<>> => formatted = BlocksText(results, TRUE))

C3_Witness ==
    /\ fpc = "returned"
    /\ Len(results) >= 2
    /\ results[1].items = <<>>
    /\ Len(results[2].items) >= 2

(***************************************************************************)
(* Claims about the interactive session (checked under Spec).              *)
(***************************************************************************)
\* C4: when llm.generate fails, no exception leaves the answer-generation step: chat
\* returns the inline error string in place of the answer, the string is shown like an
\* answer and the loop stands at the next input.
C4_GenerateFailureInline ==
    [][ /\ (pc = "generate" /\ llm_error' # None) =>
              /\ response' = ERR_PREFIX \o llm_error'
              /\ pc' = "show"
              /\ exc' = None
        /\ (pc = "show" /\ llm_error # None /\ interruptedAt' = None) =>
              /\ printed' = ERR_PREFIX \o llm_error
              /\ pc' = "input"
              /\ scope' = "inside"
              /\ exitReason' = None
      ]_vars

C4_Witness ==
    /\ pc = "input"
    /\ llm_error \in LLMErrors
    /\ printed = ERR_PREFIX \o llm_error
    /\ nshown >= 1

\* the upper-case form of a lower-case letter
UpperOf(c) ==
    IF \E i \in 1..Len(LowerCase) : LowerCase[i] = c
    THEN UpperCase[CHOOSE i \in 1..Len(LowerCase) : LowerCase[i] = c]
    ELSE c

\* typed is an exit token written in any case, with any whitespace around it
ExitLine(typed) ==
    \E a \in 0..Len(typed) : \E b \in 0..(Len(typed) - a) :
        /\ \A i \in 1..a : typed[i] \in Whitespace
        /\ \A i \in (Len(typed) - b + 1)..Len(typed) : typed[i] \in Whitespace
        /\ \E token \in ExitTokens :
              /\ Len(token) = Len(typed) - a - b
              /\ \A i \in 1..Len(token) :
                    typed[a + i] = token[i] \/ typed[a + i] = UpperOf(token[i])

BlankLine(typed) == \A i \in 1..Len(typed) : typed[i] \in Whitespace

\* C5: a line that was read ends the session if and only if, trimmed and lower-cased,
\* it is quit, exit or q; an empty or whitespace-only line gets the retry prompt, does
\* not end the session, and the loop reads the next line.
C5_ExitTokensAndEmptyInput ==
    [][ (nread' = nread + 1 /\ pc' # "handler") =>
           /\ ExitLine(line') <=> (pc' = "leave" /\ exitReason' = "token")
           /\ ExitLine(line') => printed' = MSG_GOODBYE
           /\ BlankLine(line') =>
                 /\ pc' = "input"
                 /\ printed' = MSG_RETRY
                 /\ exitReason' = None
                 /\ scope' = "inside"
      ]_vars

C5_Witness ==
    /\ pc = "done"
    /\ exitReason = "token"
    /\ nread = 2
    /\ line = <<" ", "Q">>

\* C6 as stated: an interrupt takes effect only between whole requests - once chat has
\* started for a request, the request runs to its end (its response, or its reported
\* failure) whatever arrives.
C6_InterruptOnlyBetweenRequests ==
    [][ (pc \in InChat) => (pc' \in InChat \cup {"show", "handler"}) ]_vars

\* C6 as amended: the user interrupt is the only cancellation point of the session,
\* and it takes effect wherever it arrives in the loop body, within a request too: a
\* request that chat has started is abandoned only by an interrupt, which prints the
\* goodbye message, shows no response for that request and ends the session.
C6_InterruptCancelsAnywhere ==
    [][ /\ (pc \in InChat /\ pc' \notin InChat \cup {"show", "handler"}) =>
              /\ interruptedAt' = pc
              /\ pc' = "leave"
              /\ exitReason' = "interrupt"
              /\ printed' = MSG_GOODBYE
              /\ nshown' = nshown
        /\ (interruptedAt \in InTry) =>
              /\ pc \in {"leave", "done"}
              /\ exitReason' = "interrupt"
              /\ nshown' = nshown
              /\ nread' = nread
      ]_vars

C6_Witness ==
    /\ pc = "done"
    /\ interruptedAt = "generate"
    /\ exitReason = "interrupt"
    /\ nshown = 0

\* C7: after the scope with MentisChat() as mentis is left - by an exit token, a user
\* interrupt or an exception - no handle the session acquired is still open.
C7_HandlesReleasedOnExit ==
    scope = "left" => open = {}

\* C14: an exception other than a user interrupt raised while a request is read or
\* answered goes to the handler, which reports it and puts the loop back at the next
\* input with the session still open; the loop is left only on an exit token or on a
\* user interrupt.
C14_RequestFailureContained ==
    [][ /\ (pc \in InTry /\ exc' # None) => pc' = "handler"
        /\ (pc = "handler" /\ interruptedAt' = None) =>
              /\ printed' = ErrorReport(exc)
              /\ exc' = None
              /\ pc' = "input"
              /\ scope' = "inside"
              /\ exitReason' = None
              /\ nshown' = nshown
        /\ (pc \in InTry \cup {"handler"} /\ pc' \notin InTry \cup {"handler"}) =>
              /\ pc' = "leave"
              /\ \/ exitReason' = "token" /\ pc = "input" /\ IsExit(user_query')
                 \/ interruptedAt' = pc
      ]_vars

C14_Witness ==
    /\ pc = "input"
    /\ nread = 1
    /\ nread < MaxInputs
    /\ \E msg \in RetrievalErrors : printed = ErrorReport(msg)
    /\ exc = None
    /\ scope = "inside"
    /\ exitReason = None
    /\ ENABLED ReadLine

\* C15: a failure to acquire the session's resources at its start - USER_ID or
\* OPENAI_API_KEY missing, or the store or the LLM client failing to open when
\* MentisChat is constructed - ends main before any input is read, with a plain
\* diagnostic message printed and no exception leaving main.
C15_StartupFailureAsDiagnostic ==
    (pc = "done" /\ scope = "before") =>
        /\ nread = 0
        /\ exc = None
        /\ exitReason # "uncaught"
        /\ printed \in {MSG_NO_USER_ID, MSG_NO_API_KEY}

(***************************************************************************)
(* Claims about the evaluation harness (checked under SpecEval).           *)
(***************************************************************************)
KeptEntry(t) == ~t.raised /\ t.returned # <<>>

RECURSIVE KeptQueries(_)
KeptQueries(tr) ==
    IF tr = <<>> THEN <<>>
    ELSE (IF KeptEntry(Head(tr)) THEN <<Head(tr).query>> ELSE <<>>) \o KeptQueries(Tail(tr))

RECURSIVE KeptContexts(_)
KeptContexts(tr) ==
    IF tr = <<>> THEN <<>>
    ELSE (IF KeptEntry(Head(tr)) THEN <<Head(tr).returned>> ELSE <<>>)
         \o KeptContexts(Tail(tr))

\* C8: a query whose retrieval raises is skipped and does not abort the batch: the
\* adapter returns the empty list for it, the dataset gets no entry for it, and every
\* later query is still retrieved, in order, and entered when it yields results.
C8_FailedQuerySkipped ==
    epc \in {"loop", "evaluate"} =>
        /\ Len(trace) = qi - 1
        /\ (epc = "evaluate" => Len(trace) = Len(queries))
        /\ \A i \in 1..Len(trace) :
              /\ trace[i].query = queries[i]
              /\ trace[i].raised => trace[i].returned = <<>>
        /\ user_input = KeptQueries(trace)
        /\ retrieved_contexts = KeptContexts(trace)

C8_Witness ==
    /\ epc = "evaluate"
    /\ Len(trace) = 3
    /\ KeptEntry(trace[1])
    /\ trace[2].raised
    /\ KeptEntry(trace[3])
    /\ user_input = <<queries[1], queries[3]>>

\* the score of the results object cannot be extracted: no subscript access, or no
\* matching pattern together with no matching key or a value that is not a number
ScoreNotExtractable(res) ==
    /\ ~res.strRaises
    /\ \/ ~res.subscriptable
       \/ /\ ~RegexSearch(res.raw).matched
          /\ \/ res.item.kind = "missing"
             \/ res.item.kind = "text" /\ ~ParseFloat(res.item.chars).ok

\* C9: when the score cannot be extracted, the summary record of that retriever is no
\* error record and carries every metric name with the value 0.
C9_ZeroMetricsOnExtractionFailure ==
    \A i \in 1..Len(AdapterNames) :
        (/\ AdapterNames[i] \in DOMAIN all_results
         /\ ragas_results[i].id # "none"
         /\ ScoreNotExtractable(ragas_results[i])) =>
            LET record == all_results[AdapterNames[i]] IN
            /\ "error" \notin DOMAIN record
            /\ METRIC \in DOMAIN record
            /\ record.nv_context_relevance = 0

\* C10 as stated: after run_evaluation and save_results the results directory holds a
\* file results_<name>.json for every evaluated retriever, with its name and its
\* query count.
C10_OneFilePerRetriever ==
    epc = "finished" =>
        \A n \in DOMAIN all_results :
            /\ files[FileName(n)].exists
            /\ files[FileName(n)].json.retriever = n
            /\ "num_queries" \in DOMAIN files[FileName(n)].json

SavedAsRecorded ==
    \A n \in DOMAIN all_results :
        IF "error" \notin DOMAIN all_results[n]
        THEN /\ files[FileName(n)] = ResultFile("this run", all_results[n])
             /\ files[FileName(n)].json.retriever = n
             /\ files[FileName(n)].json.num_queries >= 1
        ELSE files[FileName(n)].writtenBy # "this run"

\* C10 as amended: save_results writes exactly one file results_<name>.json for every
\* evaluated retriever whose summary record carries no "error" key, holding that
\* retriever's name and its query count (the number of queries whose retrieval was
\* not empty); for a retriever whose evaluation gave an error record (no valid data,
\* or an exception) it writes no file and leaves what the directory held.
C10_OneFilePerRetrieverWithoutError ==
    [][ /\ (epc' = "finished") =>
              /\ DOMAIN all_results' = { AdapterNames[i] : i \in 1..Len(AdapterNames) }
              /\ SavedAsRecorded'
              /\ \A f \in FileNames : files'[f].writtenBy # "this run" => files'[f] = files[f]
        /\ (epc = "evaluate" /\ "error" \notin DOMAIN all_results'[AdapterNames[ai]]) =>
              all_results'[AdapterNames[ai]].num_queries
                 = Cardinality({ k \in 1..Len(trace) : trace[k].returned # <<>> })
      ]_vars

C10_Witness ==
    /\ epc = "finished"
    /\ all_results["simple_rag"] = [error |-> "No valid data"]
    /\ files[FileName("simple_rag")].writtenBy = "previous run"
    /\ "error" \notin DOMAIN all_results["summary_rag"]
    /\ files[FileName("summary_rag")].writtenBy = "this run"
    /\ files[FileName("summary_rag")].json.num_queries = 2

RegisteredAdapters == { AdapterNames[i] : i \in 1..Len(AdapterNames) }

\* C11 as stated: the mapping run_evaluation returns holds, under the name of every
\* registered adapter, a summary record that contains num_queries, whatever the
\* outcome of evaluating any adapter.
C11_RecordWithQueryCountPerAdapter ==
    epc \in {"save", "finished"} =>
        \A name \in RegisteredAdapters :
            /\ name \in DOMAIN all_results
            /\ "num_queries" \in DOMAIN all_results[name]

\* C11 as amended: the mapping run_evaluation returns holds exactly one record under
\* the name of every registered adapter and no other key, whatever the outcome of
\* evaluating any adapter, and a record once stored is not touched by the evaluation
\* of a later adapter; the record contains num_queries (with the adapter's name)
\* exactly when the evaluation of that adapter gave no error, and is the bare error
\* record {"error": message}, without a query count, when the dataset was empty or
\* an exception was raised.
C11_RecordPerAdapterCountUnlessError ==
    [][ /\ (epc' \in {"save", "finished"}) =>
              /\ DOMAIN all_results' = RegisteredAdapters
              /\ \A name \in RegisteredAdapters :
                    LET record == all_results'[name] IN
                    IF "error" \in DOMAIN record
                    THEN DOMAIN record = {"error"}
                    ELSE /\ "num_queries" \in DOMAIN record
                         /\ record.num_queries \in 1..Len(queries')
                         /\ record.retriever = name
        /\ \A name \in DOMAIN all_results :
              /\ name \in DOMAIN all_results'
              /\ all_results'[name] = all_results[name]
        /\ (epc = "evaluate") =>
              /\ DOMAIN all_results' = DOMAIN all_results \cup {AdapterNames[ai]}
              /\ AdapterNames[ai] \notin DOMAIN all_results
              /\ (Len(user_input) = 0 =>
                     all_results'[AdapterNames[ai]] = [error |-> "No valid data"])
      ]_vars

C11_Witness ==
    /\ epc = "save"
    /\ "num_queries" \in DOMAIN all_results["simple_rag"]
    /\ all_results["simple_rag"].num_queries = 1
    /\ all_results["summary_rag"] \in { [error |-> msg] : msg \in EvaluateErrors }

\* C13: every retrieve call of an evaluation run happens inside the scope of the
\* adapter being evaluated: the adapter, and through it the underlying retriever when
\* it has a scope, is entered before the first query is retrieved, stays entered
\* while the queries are retrieved, and is exited after the last one; it is exited
\* also when a retrieve call raises out of create_ragas_dataset.
C13_RetrieveInsideAdapterScope ==
    [][ /\ (epc = "enter") =>
              /\ AdapterNames[ai] \in entered'
              /\ trace' = <<>>
              /\ epc' = "loop"
        /\ (trace' # trace /\ trace' # <<>>) =>
              /\ epc = "loop"
              /\ AdapterNames[ai] \in entered
              /\ entered' = entered
        /\ (epc' = "loop") => AdapterNames[ai'] \in entered'
        /\ (epc = "loop" /\ epc' # "loop") =>
              /\ epc' \in {"evaluate", "aborted"}
              /\ epc' = "evaluate" => Len(trace) = Len(queries)
              /\ entered' = {}
        /\ (epc' \notin {"loop"}) => entered' = {}
        /\ \A name \in RegisteredAdapters :
              Underlying(name) \in entered' => name \in entered'
      ]_vars

C13_Witness ==
    /\ epc = "aborted"
    /\ ai = 2
    /\ Len(trace) = 1
    /\ Len(queries) = 2
    /\ entered = {}

\* the queries of the running loop whose retrieval returned a non-empty list
NonEmptyAt == { k \in 1..Len(trace) : trace[k].returned # <<>> }
\* the i-th of them, in the order of the query list
NthNonEmpty(i) == CHOOSE k \in NonEmptyAt : Cardinality({ j \in NonEmptyAt : j < k }) = i - 1

\* C16: at every step of create_ragas_dataset the columns user_input and
\* retrieved_contexts have the same length, the i-th contexts are the ones retrieved
\* for the i-th recorded query, the recorded queries keep the order of the query
\* list, and the dataset holds one row per query retrieved so far whose retrieval
\* was not empty - on completion, per input query - so that num_queries never
\* exceeds the number of input queries.
C16_DatasetColumnsAligned ==
    /\ Len(user_input) = Len(retrieved_contexts)
    /\ Len(user_input) <= Len(queries)
    /\ (epc \in {"loop", "evaluate"}) =>
          /\ Len(user_input) = Cardinality(NonEmptyAt)
          /\ \A i \in 1..Len(user_input) :
                /\ user_input[i] = queries[NthNonEmpty(i)]
                /\ retrieved_contexts[i] = trace[NthNonEmpty(i)].returned
                /\ retrieved_contexts[i] # <<>>
          /\ \A i, j \in 1..Len(user_input) : i < j => NthNonEmpty(i) < NthNonEmpty(j)
    /\ (epc = "evaluate") =>
          Len(user_input) = Cardinality({ k \in 1..Len(queries) : trace[k].returned # <<>> })
    /\ \A name \in DOMAIN all_results :
          "num_queries" \in DOMAIN all_results[name] =>
              all_results[name].num_queries <= Len(queries)

C16_Witness ==
    /\ epc = "loop"
    /\ Len(queries) = 3
    /\ qi = 3
    /\ trace[1].returned = <<>>
    /\ user_input = <<queries[2]>>
    /\ retrieved_contexts = <<trace[2].returned>>

====
